---- MODULE Spec2Model ----
(***************************************************************************)
(* Two parts.  RenderToTexture (render_to_texture.ts): the stacks built by *)
(* renderLayer over a style's layers, the pool of framebuffers and the     *)
(* per-tile cache of rendered stacks, frame after frame.                   *)
(* Frame scheduler of Map (src/ui/map.ts): the dirty flags, the single     *)
(* animation-frame request, the render task queue and the per-frame        *)
(* pipeline Map._render, with the external code that the pipeline invokes  *)
(* (task callbacks, style/source updates, 'render'/'load'/'idle' handlers) *)
(* able to call back into the map.  The performance marker _fullyLoaded    *)
(* and the gpu-timing listeners are not modelled: nothing reads them.      *)
(***************************************************************************)
EXTENDS Integers, Sequences, FiniteSets, TLC

\* ---------------------------------------------------------------- bounds
MaxTasks == 2        \* task ids handed out by the task queue
MaxDepth == 2        \* nesting of _render (redraw called from a callback)
MaxBurst == 3        \* counted consecutive _update calls
MaxLayers == 5       \* layers of a style traversed by renderLayer
MaxOrder == 2        \* layers of a style rendered over several frames
MaxTiles == 2        \* terrain tiles
MaxSrcTiles == 2     \* tiles of the source that can contribute to a terrain tile
MaxFrames == 3       \* frames rendered to texture
MaxPushed == 3       \* coords pushed for one terrain tile

\* crossfade factors the style evaluation can report (1 = converged)
Factors == {0, 1}

VARIABLES
    style,              \* this.style is set
    styleLoaded,        \* what this.style.loaded() reports
    styleDirty,         \* this._styleDirty
    sourcesDirty,       \* this._sourcesDirty
    placementDirty,     \* this._placementDirty
    frame,              \* this._frame holds a handle
    removed,            \* this._removed
    repaint,            \* this._repaint
    loaded,             \* this._loaded
    crossFadingFactor,  \* this._crossFadingFactor
    moving,             \* this.isMoving()
    rafPending,         \* callbacks registered with browser.frame, not fired or cancelled
    queue,              \* this._renderTaskQueue: pending task ids, insertion order
    nextId,             \* next task id of the queue
    stack,              \* activations of _render in progress, innermost last
    burst,              \* consecutive _update calls made between frames on a styled map
    taskRuns,           \* per task id: number of times its callback ran
    taskCancelled,      \* per task id: cancelled while still pending
    sinceIdle,          \* "none": no 'idle' yet; "idle": no _update since the last 'idle';
                        \* "updated": _update called since; "again": 'idle' followed 'idle'
                        \* with no _update in between
    layerOrder,         \* painter.style._order, as the types of the layers
    renderableTiles,    \* RenderToTexture._renderableTiles
    coordsInv,          \* per terrain tile: source tiles of _coordsDescendingInv
    stale,              \* per terrain tile: terrain.needsRerender reports it
    stacks,             \* RenderToTexture._stacks, as positions in layerOrder
    prevType,           \* RenderToTexture._prevType
    pool,               \* rttFBOs.length
    textures,           \* rttTextures.length
    used,               \* slots i with rttUsedFBOs[i] true
    tileFBOs,           \* per terrain tile: tile.rttFBOs, by stack
    tileCoords,         \* per terrain tile: tile.rttCoords of the source
    currentLayer,       \* layers renderLayer was called for in this frame
    frameNo,            \* frames initialized so far
    passed,             \* layers for which renderLayer returned a falsy value
    draws,              \* per terrain tile and stack: draw passes in this frame
    touched,            \* per terrain tile: source tiles or style changed, or flag raised, since the frame
    atInit,             \* per terrain tile: what initialize() found
    log,                \* calls made by renderLayer in this frame, in order
    pushed,             \* _coordsDescendingInv[source][key] of one terrain tile, as the keys
                        \* of the coords in the order they were pushed (empty where the
                        \* tiles of the source are kept as a set in coordsInv)
    invStr,             \* _coordsDescendingInvStr[source][key] of that tile
    content             \* per terrain tile and stack index: the types of the layers drawn
                        \* into the surface the tile holds

mapVars == <<style, styleLoaded, styleDirty, sourcesDirty, placementDirty, frame,
             removed, repaint, loaded, crossFadingFactor, moving>>
hostVars == <<rafPending, queue, nextId, stack>>
ghostVars == <<burst, taskRuns, taskCancelled, sinceIdle>>
rttVars == <<layerOrder, renderableTiles, coordsInv, stale, stacks, prevType, pool, used,
             tileFBOs, tileCoords, currentLayer, frameNo, passed, draws, touched, atInit,
             log, textures, pushed, invStr, content>>
vars == <<mapVars, hostVars, ghostVars, rttVars>>

TaskIds == 1..MaxTasks

Min(a, b) == IF a < b THEN a ELSE b
Range(s) == {s[i] : i \in 1..Len(s)}

\* ------------------------------------------------------------ activations
\* An activation of _render: pc is its position, running the tasks of its
\* drain still to run, crossFading its local variable; snap (the tasks its
\* drain started with), task (the task whose callback is running), idles
\* (the 'idle' notifications it emitted), fading (crossFadingFactor()
\* returned to it a factor other than 1) and transitions (line 2674 set
\* _styleDirty from false to true and only style.hasTransitions() asked for
\* it) record what it did.
Top == stack[Len(stack)]
SetTop(r) == [stack EXCEPT ![Len(stack)] = r]
Pop == SubSeq(stack, 1, Len(stack) - 1)

\* Points of _render at which control is inside external code.
YieldPcs == {"inTask", "inStyleUpdate", "inSourcesUpdate", "inRender", "inLoad", "inIdle"}

\* An API call is made by the host between frames or by external code
\* that the pipeline has called.
CanCall == IF stack = <<>> THEN TRUE ELSE Top.pc \in YieldPcs
AtTopLevel == stack = <<>>
At(p) == stack # <<>> /\ Top.pc = p

\* Order of the positions of _render.
PcRank(p) ==
    CASE p = "drain" -> 1
      [] p = "inTask" -> 1
      [] p = "sources" -> 2
      [] p = "inStyleUpdate" -> 2
      [] p = "terrain" -> 3
      [] p = "inSourcesUpdate" -> 3
      [] p = "placement" -> 4
      [] p = "draw" -> 5
      [] p = "inRender" -> 6
      [] p = "decide" -> 7
      [] p = "inLoad" -> 7
      [] p = "finish" -> 8
      [] p = "inIdle" -> 8

RemoveId(s, id) == SelectSeq(s, LAMBDA x : x # id)

\* The map after construction.
MapConstructed ==
    /\ style \in BOOLEAN
    /\ styleLoaded = FALSE
    /\ styleDirty = FALSE
    /\ sourcesDirty = FALSE
    /\ placementDirty = FALSE
    /\ frame = FALSE
    /\ removed = FALSE
    /\ repaint = FALSE
    /\ loaded = FALSE
    /\ crossFadingFactor = 1
    /\ moving = FALSE
    /\ rafPending = 0
    /\ queue = <<>>
    /\ nextId = 1
    /\ stack = <<>>
    /\ burst = 0
    /\ taskRuns = [i \in TaskIds |-> 0]
    /\ taskCancelled = [i \in TaskIds |-> FALSE]
    /\ sinceIdle = "none"

\* ------------------------------------------------------- RenderToTexture
\* Layer types of a style; those of _renderToTexture are rendered to texture.
Compositable == {"background", "fill", "line", "raster"}
LayerTypes == {"background", "fill", "symbol", "hillshade"}
Tiles == 1..MaxTiles
SrcTiles == 1..MaxSrcTiles
\* Indices of tile.rttFBOs: a style has at most one stack per layer.
StackIds == 1..Len(layerOrder)

\* undefined, as the value of tile.rttFBOs[stack]
None == -1

\* undefined, as the value of tile.rttCoords[source] and of an entry of
\* _coordsDescendingInvStr[source]; a defined key is never empty
NoCoords == <<>>

\* this._renderToTexture[type]; _prevType is null before the first layer
RenderToTexture(type) == type \in Compositable

\* layer.source: a background layer has none
HasSource(type) == type # "background"

\* if (tile.rttFBOs[stack]) : undefined and 0 are falsy
Truthy(x) == x # None /\ x # 0

\* _coordsDescendingInv[source][key].map(c => c.key).sort().join()
RECURSIVE SortedKeys(_)
SortedKeys(S) ==
    IF S = {} THEN <<>>
    ELSE LET m == CHOOSE x \in S : \A y \in S : x <= y
         IN <<m>> \o SortedKeys(S \ {m})

\* _coordsDescendingInvStr[source][tile.tileID.key]: undefined when no tile
\* of the source contributes
CoordsStr(S) == IF S = {} THEN NoCoords ELSE SortedKeys(S)

\* The style has a layer rendered to texture that has a source:
\* _coordsDescendingInvStr has an entry for the source.
SourceListed == \E i \in 1..Len(layerOrder) :
                    RenderToTexture(layerOrder[i]) /\ HasSource(layerOrder[i])

NoFBOs(n) == [k \in 1..n |-> None]
NoDraws(ts, n) == [t \in ts |-> [k \in 1..n |-> 0]]

\* The renderable tiles in the order of the array.
RECURSIVE TileSeq(_)
TileSeq(S) ==
    IF S = {} THEN <<>>
    ELSE LET m == CHOOSE x \in S : \A y \in S : x <= y
         IN <<m>> \o TileSeq(S \ {m})

\* What initialize() finds for a tile: whether the key of the source equals
\* the recorded one (same), whether the source has flagged the tile (flagged),
\* whether neither changed since the frame before (quiet) or since the
\* first frame (steady), and the slots it leaves the tile with (fbos).
\* owed: the source flagged the tile while it held a surface, and the tile
\* has kept its surfaces since; due: so it was when the frame began.
NoNote == [same |-> FALSE, flagged |-> FALSE, quiet |-> FALSE, steady |-> TRUE,
           fbos |-> <<>>, owed |-> FALSE, due |-> FALSE]

\* A call made by renderLayer: "draw" (the layers of stack idx drawn into
\* the slot claimed for the tile), "free" (freeFBO of the slot the tile held
\* for stack idx), "drape" (drawTerrain while stack idx is the last one, 0
\* when there is none), "direct" (a falsy return: the painter draws layer
\* idx itself), "failed" (createFramebuffer did not deliver a framebuffer)
\* and "throw" (the exception leaves renderLayer).
Ev(op, t, idx, slot) == [op |-> op, tile |-> t, idx |-> idx, slot |-> slot]

\* The last call of the frame ended with an exception.
Thrown == log # <<>> /\ log[Len(log)].op = "throw"

\* The compositor after construction, for a style, the renderable tiles and
\* the source tiles of the terrain tiles that exist.
RttConstructed(order, tiles, inv) ==
    /\ layerOrder = order
    /\ renderableTiles = tiles
    /\ coordsInv = inv
    /\ stale = [t \in DOMAIN inv |-> FALSE]
    /\ stacks = <<>>
    /\ prevType = "null"
    /\ pool = 0
    /\ textures = 0
    /\ used = {}
    /\ tileFBOs = [t \in DOMAIN inv |-> NoFBOs(Len(order))]
    /\ tileCoords = [t \in DOMAIN inv |-> NoCoords]
    /\ currentLayer = 0
    /\ frameNo = 0
    /\ passed = {}
    /\ draws = NoDraws(DOMAIN inv, Len(order))
    /\ touched = [t \in DOMAIN inv |-> FALSE]
    /\ atInit = [t \in DOMAIN inv |-> NoNote]
    /\ log = <<>>
    /\ pushed = <<>>
    /\ invStr = NoCoords
    /\ content = [t \in DOMAIN inv |-> [k \in 1..Len(order) |-> <<>>]]

\* getFBO(): the first slot not marked in use, marked; else a new slot,
\* which is pushed but not marked.
HasFree(u, n) == \E i \in 0..(n - 1) : i \notin u
\* Mutant: the loop of getFBO runs from the last slot down.
FirstFreeFromEnd(u, n) == CHOOSE i \in 0..(n - 1) : i \notin u /\ \A j \in (i + 1)..(n - 1) : j \in u
FirstFree(u, n) == CHOOSE i \in 0..(n - 1) : i \notin u /\ \A j \in 0..(i - 1) : j \in u
GetFBOSlot(u, n) == IF HasFree(u, n) THEN FirstFree(u, n) ELSE n
GetFBOUsed(u, n) == IF HasFree(u, n) THEN u \cup {FirstFree(u, n)} ELSE u
GetFBOPool(u, n) == IF HasFree(u, n) THEN n ELSE n + 1

\* Mutant: getFBO that pushes the framebuffer and not its texture.
GetFBOTexturesNoPush(u, n, m) == m

\* rttTextures.length after getFBO(): the texture is pushed with the framebuffer.
GetFBOTextures(u, n, m) == IF HasFree(u, n) THEN m ELSE m + 1

\* freeFBO(i): if (typeof(i) === "number") this.rttUsedFBOs[i] = false
FreeFBO(u, i) == IF i # None THEN u \ {i} ELSE u

\* initialize(), lines 82-89: the tile keeps its surfaces unless the key of
\* the source is defined and differs from the recorded one, or the source
\* has flagged the tile.
KeepsFBOs(t) ==
    ~(SourceListed
        /\ \/ CoordsStr(coordsInv[t]) # NoCoords /\ CoordsStr(coordsInv[t]) # tileCoords[t]
           \/ stale[t])

\* The tile holds a slot for some stack.
HoldsSurface(t) == \E k \in 1..Len(tileFBOs[t]) : tileFBOs[t][k] # None

\* terrain.sourceCache.removeOutdated (line 94) can discard tiles that are
\* not rendered, with their surfaces.
Outdated(tiles) == {t \in Tiles : t \notin tiles /\ HoldsSurface(t)}

\* initialize(): a frame begins, with the tiles getRenderableTiles() returns.
InitializeBody(tiles) ==
    /\ frameNo < MaxFrames
    /\ frameNo = 0 \/ currentLayer = Len(layerOrder) \/ Thrown
    /\ layerOrder # <<>>
    /\ stacks' = <<>>
    /\ prevType' = "null"
    /\ \E gone \in SUBSET Outdated(tiles) :
         tileFBOs' = [t \in Tiles |->
                        IF (t \in tiles /\ ~KeepsFBOs(t)) \/ t \in gone
                        THEN NoFBOs(Len(layerOrder)) ELSE tileFBOs[t]]
    /\ renderableTiles' = tiles
    /\ used' = {tileFBOs'[t][k] : t \in tiles, k \in StackIds} \ {None}
    /\ stale' = [t \in Tiles |-> FALSE]
    /\ currentLayer' = 0
    /\ frameNo' = frameNo + 1
    /\ passed' = {}
    /\ draws' = NoDraws(Tiles, Len(layerOrder))
    /\ touched' = [t \in Tiles |-> FALSE]
    /\ atInit' = [t \in Tiles |->
                    [same |-> CoordsStr(coordsInv[t]) = tileCoords[t],
                     flagged |-> stale[t],
                     quiet |-> frameNo >= 1 /\ ~touched[t],
                     steady |-> atInit[t].steady /\ ~touched[t],
                     fbos |-> tileFBOs'[t],
                     owed |-> atInit[t].owed /\ tileFBOs'[t] = tileFBOs[t],
                     due |-> atInit[t].owed /\ tileFBOs'[t] = tileFBOs[t]]]
    /\ log' = <<>>
    /\ content' = [t \in Tiles |->
                     IF tileFBOs'[t] = tileFBOs[t] THEN content[t]
                     ELSE [k \in 1..Len(layerOrder) |-> <<>>]]
    /\ UNCHANGED <<layerOrder, coordsInv, pool, textures, tileCoords, pushed, invStr>>
    /\ UNCHANGED <<mapVars, hostVars, ghostVars>>

\* A frame over the tiles of the frame before.
Initialize == InitializeBody(renderableTiles)

\* A frame after tiles came into view or left it.
InitializeMoved == \E tiles \in (SUBSET Tiles) \ {renderableTiles} : InitializeBody(tiles)

\* Mutant: _prevType keeps the last type rendered to texture.
PrevTypeKeepsRun(type, isLast) == IF RenderToTexture(type) THEN type ELSE prevType

\* renderLayer, lines 156-166: _prevType when the call returns.
PrevTypeAfter(type, isLast) ==
    IF RenderToTexture(type) /\ ~isLast THEN type
    ELSE IF RenderToTexture(type) \/ RenderToTexture(prevType) \/ type = "hillshade"
         THEN type
         ELSE prevType

\* renderLayer, lines 156-160: the layer joins the last stack, or a new one
\* when the layer before it was not rendered to texture.
StacksJoined(type, cur) ==
    IF RenderToTexture(type)
    THEN IF RenderToTexture(prevType)
         THEN [stacks EXCEPT ![Len(stacks)] = Append(@, cur)]
         ELSE Append(stacks, <<cur>>)
    ELSE stacks

\* renderLayer, line 165: the stack collected so far is rendered now.
Flushes(type, isLast) ==
    /\ ~(RenderToTexture(type) /\ ~isLast)
    /\ RenderToTexture(type) \/ RenderToTexture(prevType) \/ type = "hillshade"

\* Some layer of the stack has a source: the draw records tile.rttCoords.
StackSourced(stk) == \E i \in 1..Len(stk) : HasSource(layerOrder[stk[i]])

\* getFBO() reaches createFramebuffer (line 116) and the creation fails:
\* a framebuffer that throws ("throws"), or one that is handed back unusable
\* without an exception ("broken"); "no" when creation succeeds.
CreateOutcomes == {"no", "throws", "broken"}
CreateFails(r) == r.fail # "no" /\ ~HasFree(r.used, r.pool)

\* getFBO() and the statements after it, for tile t and stack k of a call
\* whose state so far is r: nothing in getFBO or renderLayer catches.
Claimed(r, t, k, sourced) ==
    LET f == IF CreateFails(r)
             THEN [r EXCEPT !.log = Append(@, Ev("failed", t, k, r.pool))]
             ELSE r
    IN IF CreateFails(r) /\ r.fail = "throws"
       THEN [f EXCEPT !.thrown = TRUE, !.log = Append(@, Ev("throw", t, k, None))]
       ELSE [f EXCEPT !.fbos[t][k] = GetFBOSlot(r.used, r.pool),
                      !.used = GetFBOUsed(r.used, r.pool),
                      !.pool = GetFBOPool(r.used, r.pool),
                      !.textures = GetFBOTextures(r.used, r.pool, r.textures),
                      !.coords = IF sourced
                                 THEN [r.coords EXCEPT ![t] = CoordsStr(coordsInv[t])]
                                 ELSE r.coords,
                      !.draws[t][k] = @ + 1,
                      !.log = Append(@, Ev("draw", t, k, GetFBOSlot(r.used, r.pool)))]

\* Lines 169-178 for one tile: a tile holding a truthy slot for the stack is
\* skipped; any other claims a slot and has the layers of the stack drawn.
FlushTile(r, t, k, sourced) ==
    IF r.thrown \/ Truthy(r.fbos[t][k]) THEN r
    ELSE Claimed(r, t, k, sourced)

RECURSIVE FlushAll(_, _, _, _)
FlushAll(r, ts, k, sourced) ==
    IF ts = <<>> THEN r
    ELSE FlushAll(FlushTile(r, Head(ts), k, sourced), Tail(ts), k, sourced)

\* Mutant: a hillshade surface the tile still holds is kept, like any other.
HillshadeTileReuses(r, t, k) == FlushTile(r, t, k, FALSE)

\* Lines 187-194 for one tile: the slot held for the hillshade stack is
\* freed, a slot is claimed and the layer is drawn.
HillshadeTile(r, t, k) ==
    IF r.thrown THEN r
    ELSE Claimed([r EXCEPT !.used = FreeFBO(r.used, r.fbos[t][k]),
                           !.log = Append(@, Ev("free", t, k, r.fbos[t][k]))],
                 t, k, FALSE)

RECURSIVE HillshadeAll(_, _, _)
HillshadeAll(r, ts, k) ==
    IF ts = <<>> THEN r
    ELSE HillshadeAll(HillshadeTile(r, Head(ts), k), Tail(ts), k)

\* drawTerrain(painter, this, _renderableTiles), lines 180 and 195: it reads
\* the texture of the last stack (getTexture); not reached after a throw.
Draped(r, k) ==
    IF r.thrown THEN r ELSE [r EXCEPT !.log = Append(@, Ev("drape", 0, k, None))]

\* The types of the layers of a stack.
StackTypes(layers) == [i \in 1..Len(layers) |-> layerOrder[layers[i]]]

\* renderLayer(layer) for the next layer of the style; fail is what a
\* creation of a framebuffer during the call comes to.
RenderLayerBody(fail) ==
    /\ frameNo >= 1
    /\ currentLayer < Len(layerOrder)
    /\ ~Thrown
    /\ LET cur == currentLayer + 1
           type == layerOrder[cur]
           isLast == cur = Len(layerOrder)
           joined == StacksJoined(type, cur)
           hill == Flushes(type, isLast) /\ type = "hillshade"
           r0 == [fbos |-> tileFBOs, used |-> used, pool |-> pool, textures |-> textures,
                  coords |-> tileCoords, draws |-> draws, log |-> log,
                  thrown |-> FALSE, fail |-> fail]
           ts == TileSeq(renderableTiles)
           r1 == IF Flushes(type, isLast)
                 THEN Draped(IF joined # <<>>
                             THEN FlushAll(r0, ts, Len(joined),
                                           StackSourced(joined[Len(joined)]))
                             ELSE r0,
                             Len(joined))
                 ELSE r0
           r2 == IF hill /\ ~r1.thrown
                 THEN Draped(HillshadeAll(r1, ts, Len(joined) + 1), Len(joined) + 1)
                 ELSE r1
           falsy == ~r2.thrown /\ ~RenderToTexture(type) /\ ~hill
       IN /\ stacks' = IF hill /\ ~r1.thrown THEN Append(joined, <<cur>>) ELSE joined
          /\ prevType' = PrevTypeAfter(type, isLast)
          /\ tileFBOs' = r2.fbos
          /\ used' = r2.used
          /\ pool' = r2.pool
          /\ textures' = r2.textures
          /\ tileCoords' = r2.coords
          /\ draws' = r2.draws
          /\ passed' = IF falsy THEN passed \cup {cur} ELSE passed
          /\ log' = IF falsy THEN Append(r2.log, Ev("direct", 0, cur, None)) ELSE r2.log
          /\ currentLayer' = cur
          /\ content' = [t \in Tiles |-> [k \in 1..Len(layerOrder) |->
                            IF \E i \in (Len(log) + 1)..Len(r2.log) :
                                  r2.log[i].op = "draw" /\ r2.log[i].tile = t /\ r2.log[i].idx = k
                            THEN StackTypes(stacks'[k])
                            ELSE content[t][k]]]
    /\ UNCHANGED <<layerOrder, renderableTiles, coordsInv, stale, frameNo, touched, atInit,
                   pushed, invStr>>
    /\ UNCHANGED <<mapVars, hostVars, ghostVars>>

\* renderLayer(layer) when every framebuffer it asks for is created.
RenderLayer == RenderLayerBody("no")

\* renderLayer(layer) when it needs a new framebuffer and the creation fails.
RenderLayerCreateFails ==
    \E fail \in CreateOutcomes \ {"no"} :
        /\ RenderLayerBody(fail)
        /\ \E i \in 1..Len(log') : i > Len(log) /\ log'[i].op = "failed"

\* Between frames the tiles of the source covering a terrain tile change.
TilesChange(t, S) ==
    /\ frameNo >= 1 /\ frameNo < MaxFrames
    /\ currentLayer = Len(layerOrder)
    /\ t \in renderableTiles
    /\ S # coordsInv[t]
    /\ ~touched[t]
    /\ coordsInv' = [coordsInv EXCEPT ![t] = S]
    /\ touched' = [touched EXCEPT ![t] = TRUE]
    /\ UNCHANGED <<layerOrder, renderableTiles, stale, stacks, prevType, pool, used,
                   tileFBOs, tileCoords, currentLayer, frameNo, passed, draws, atInit,
                   log, textures, pushed, invStr, content>>
    /\ UNCHANGED <<mapVars, hostVars, ghostVars>>

\* Between frames the source flags a terrain tile for re-rendering.
MarkStale(t) ==
    /\ frameNo >= 1 /\ frameNo < MaxFrames
    /\ currentLayer = Len(layerOrder)
    /\ t \in renderableTiles
    /\ ~stale[t]
    /\ stale' = [stale EXCEPT ![t] = TRUE]
    /\ touched' = [touched EXCEPT ![t] = TRUE]
    /\ UNCHANGED <<layerOrder, renderableTiles, coordsInv, stacks, prevType, pool, used,
                   tileFBOs, tileCoords, currentLayer, frameNo, passed, draws, atInit,
                   log, textures, pushed, invStr, content>>
    /\ UNCHANGED <<mapVars, hostVars, ghostVars>>

\* The source flags a terrain tile for re-rendering at any time after the
\* first initialize(), also in the middle of a frame and for a tile that is
\* not rendered.
RememberForRerender(t) ==
    /\ frameNo >= 1
    /\ frameNo < MaxFrames \/ currentLayer < Len(layerOrder)
    /\ ~Thrown
    /\ ~stale[t]
    /\ stale' = [stale EXCEPT ![t] = TRUE]
    /\ touched' = [touched EXCEPT ![t] = TRUE]
    /\ atInit' = [atInit EXCEPT ![t].owed = @ \/ HoldsSurface(t)]
    /\ UNCHANGED <<layerOrder, renderableTiles, coordsInv, stacks, prevType, pool, used,
                   tileFBOs, tileCoords, currentLayer, frameNo, passed, draws,
                   log, textures, pushed, invStr, content>>
    /\ UNCHANGED <<mapVars, hostVars, ghostVars>>

\* Between frames the style's layer order changes: layers are replaced by
\* layers of other types or change places (the number of layers stays).
OrderChange(order) ==
    /\ frameNo >= 1 /\ frameNo < MaxFrames
    /\ currentLayer = Len(layerOrder)
    /\ Len(order) = Len(layerOrder)
    /\ order # layerOrder
    /\ layerOrder' = order
    /\ touched' = [t \in Tiles |-> TRUE]
    /\ UNCHANGED <<renderableTiles, coordsInv, stale, stacks, prevType, pool, used,
                   tileFBOs, tileCoords, currentLayer, frameNo, passed, draws,
                   atInit, log, textures, pushed, invStr, content>>
    /\ UNCHANGED <<mapVars, hostVars, ghostVars>>

\* c.key of a source tile: a string, here of the characters 1 and 2. The
\* separator join() puts between two keys sorts before both.
Keys == {<<1>>, <<2>>, <<1, 1>>, <<1, 2>>, <<2, 1>>}
Comma == 0

\* The arrays _coordsDescendingInv[source][key] of at most n coords.
Pushes(n) == UNION {[1..m -> Keys] : m \in 0..n}

\* a sorts before b, or equals it, in the order of Array.prototype.sort()
\* without a comparator: by code units, a prefix first.
RECURSIVE KeyLeq(_, _)
KeyLeq(a, b) ==
    IF a = <<>> THEN TRUE
    ELSE IF b = <<>> THEN FALSE
    ELSE IF Head(a) # Head(b) THEN Head(a) < Head(b)
    ELSE KeyLeq(Tail(a), Tail(b))

\* .sort(): every key that was pushed stays, as often as it was pushed.
RECURSIVE KeysSorted(_)
KeysSorted(list) ==
    IF list = <<>> THEN <<>>
    ELSE LET i == CHOOSE j \in 1..Len(list) : \A m \in 1..Len(list) : KeyLeq(list[j], list[m])
         IN <<list[i]>> \o KeysSorted(SubSeq(list, 1, i - 1) \o SubSeq(list, i + 1, Len(list)))

\* .join(): the keys with a comma between two of them.
RECURSIVE KeysJoined(_)
KeysJoined(list) ==
    IF list = <<>> THEN <<>>
    ELSE IF Len(list) = 1 THEN list[1]
    ELSE list[1] \o <<Comma>> \o KeysJoined(Tail(list))

\* Lines 55-77 for one terrain tile: the entry of _coordsDescendingInvStr,
\* undefined when nothing was pushed for the tile.
InvStr(list) == IF list = <<>> THEN NoCoords ELSE KeysJoined(KeysSorted(list))

\* initialize(), lines 53-78: the coords of the visible tiles of the source
\* are pushed for the terrain tile, and the key of the tile is built.
FillCoords(list) ==
    /\ pushed' = list
    /\ invStr' = InvStr(list)
    /\ UNCHANGED <<layerOrder, renderableTiles, coordsInv, stale, stacks, prevType, pool,
                   used, tileFBOs, tileCoords, currentLayer, frameNo, passed, draws,
                   touched, atInit, log, textures, content>>
    /\ UNCHANGED <<mapVars, hostVars, ghostVars>>

\* The keys initialize() builds for one terrain tile, for every array of at
\* most MaxPushed coords that the enumeration of the visible tiles can push.
InitKeys ==
    /\ MapConstructed /\ style
    /\ RttConstructed(<<"fill">>, {1}, [t \in Tiles |-> {1}])

NextKeys == \E list \in Pushes(MaxPushed) : FillCoords(list)

SpecKeys == InitKeys /\ [][NextKeys]_vars

\* All layer orders of at most n layers.
Orders(n) == UNION {[1..m -> LayerTypes] : m \in 1..n}

\* The frames of every style of at most MaxLayers layers over one terrain tile.
InitStacks ==
    /\ MapConstructed /\ style
    /\ \E order \in Orders(MaxLayers) : RttConstructed(order, {1}, [t \in Tiles |-> {1}])

NextStacks ==
    \/ Initialize
    \/ RenderLayer

SpecStacks == InitStacks /\ [][NextStacks]_vars

\* The frames of a short style over terrain tiles whose source tiles change
\* and which the source flags between frames.
InitRtt ==
    /\ MapConstructed /\ style
    /\ \E order \in Orders(MaxOrder), n \in 1..MaxTiles :
         \E inv \in [Tiles -> SUBSET SrcTiles] :
            /\ \A t \in Tiles : t > n => inv[t] = {}
            /\ RttConstructed(order, 1..n, inv)

NextRtt ==
    \/ Initialize
    \/ RenderLayer
    \/ \E t \in Tiles, S \in SUBSET SrcTiles : TilesChange(t, S)
    \/ \E t \in Tiles : MarkStale(t)

SpecRtt == InitRtt /\ [][NextRtt]_vars

\* The frames of a short style over terrain tiles that each have one source
\* tile, when the layer order of the style changes between frames.
InitRestyle ==
    /\ MapConstructed /\ style
    /\ \E order \in Orders(MaxOrder), n \in 1..MaxTiles :
         RttConstructed(order, 1..n, [t \in Tiles |-> {1}])

NextRestyle ==
    \/ Initialize
    \/ RenderLayer
    \/ \E order \in Orders(MaxOrder) : OrderChange(order)

SpecRestyle == InitRestyle /\ [][NextRestyle]_vars

\* The frames of a short style over terrain tiles that each have one source
\* tile, that come into view and leave it between frames and that the
\* source flags at any time.
InitTiles ==
    /\ MapConstructed /\ style
    /\ \E order \in Orders(MaxOrder) :
         RttConstructed(order, Tiles, [t \in Tiles |-> {1}])

NextTiles ==
    \/ Initialize
    \/ RenderLayer
    \/ InitializeMoved
    \/ \E t \in Tiles : RememberForRerender(t)

SpecTiles == InitTiles /\ [][NextTiles]_vars

\* The frames of a short style over terrain tiles that each have one source
\* tile and are flagged by the source between frames, when the creation of
\* a framebuffer can fail.
InitFail ==
    /\ MapConstructed /\ style
    /\ \E order \in Orders(MaxOrder), n \in 1..MaxTiles :
            RttConstructed(order, 1..n, [t \in Tiles |-> IF t <= n THEN {1} ELSE {}])

NextFail ==
    \/ Initialize
    \/ RenderLayer
    \/ RenderLayerCreateFails
    \/ \E t \in Tiles : MarkStale(t)

SpecFail == InitFail /\ [][NextFail]_vars

\* The map after construction: no style is rendered and no terrain tile exists.
Init ==
    /\ MapConstructed
    /\ RttConstructed(<<>>, {}, <<>>)

\* ------------------------------------------------ Map.triggerRepaint, _update
\* Mutant: triggerRepaint without the !this._frame test.
TriggerRepaintNoGuard ==
    IF style
    THEN frame' = TRUE /\ rafPending' = rafPending + 1
    ELSE UNCHANGED <<frame, rafPending>>

\* triggerRepaint(): request an animation frame unless one is outstanding.
TriggerRepaintBody ==
    IF style /\ ~frame
    THEN frame' = TRUE /\ rafPending' = rafPending + 1
    ELSE UNCHANGED <<frame, rafPending>>

\* Mutant: _update without the call of triggerRepaint.
UpdateBodyNoRepaint(updateStyle) ==
    IF ~style
    THEN UNCHANGED <<styleDirty, sourcesDirty, frame, rafPending>>
    ELSE /\ styleDirty' = (styleDirty \/ updateStyle)
         /\ sourcesDirty' = TRUE
         /\ UNCHANGED <<frame, rafPending>>

\* _update(updateStyle): mark dirty and request a frame; nothing without a style.
UpdateBody(updateStyle) ==
    IF ~style
    THEN UNCHANGED <<styleDirty, sourcesDirty, frame, rafPending>>
    ELSE /\ styleDirty' = (styleDirty \/ updateStyle)
         /\ sourcesDirty' = TRUE
         /\ TriggerRepaintBody

\* Bookkeeping of a call of _update.
UpdateNoted ==
    /\ burst' = IF AtTopLevel /\ style THEN Min(burst + 1, MaxBurst) ELSE 0
    /\ sinceIdle' = IF sinceIdle \in {"idle", "again"} THEN "updated" ELSE sinceIdle

\* Bookkeeping of an 'idle' notification.
IdleNoted == IF sinceIdle \in {"idle", "again"} THEN "again" ELSE "idle"

\* this._frame.cancel(); this._frame = null
CancelFrameBody ==
    IF frame
    THEN frame' = FALSE /\ rafPending' = rafPending - 1
    ELSE UNCHANGED <<frame, rafPending>>

\* TaskQueue.run starts: the drain takes the tasks queued so far, and tasks
\* added from now on wait for the next drain.
QueueSnapshot(q) == q
QueueAfterSnapshot(q) == <<>>

\* A new activation of _render: lines 2594-2607 up to the start of the drain.
NewActivation ==
    [pc |-> "drain", running |-> QueueSnapshot(queue), crossFading |-> FALSE,
     snap |-> Range(queue), task |-> 0, idles |-> 0, fading |-> FALSE,
     transitions |-> FALSE]

\* ------------------------------------------------------------- API calls
Update(updateStyle) ==
    /\ CanCall
    /\ UpdateBody(updateStyle)
    /\ UpdateNoted
    /\ UNCHANGED <<style, styleLoaded, placementDirty, removed, repaint, loaded,
                   crossFadingFactor, moving, queue, nextId, stack,
                   taskRuns, taskCancelled>>
    /\ UNCHANGED rttVars

\* The 'data' handler of the constructor: the style's state has changed and
\* the event calls _update(dataType === 'style').
StyleData(updateStyle, nowLoaded) ==
    /\ CanCall
    /\ style
    /\ styleLoaded' = nowLoaded
    /\ UpdateBody(updateStyle)
    /\ UpdateNoted
    /\ UNCHANGED <<style, placementDirty, removed, repaint, loaded,
                   crossFadingFactor, moving, queue, nextId, stack,
                   taskRuns, taskCancelled>>
    /\ UNCHANGED rttVars

\* TaskQueue.add(callback): append a task under a fresh id.
QueueAdd(id) == Append(queue, id)

\* Mutant: _requestRenderFrame without the call of _update.
RequestRenderFrameNoUpdate ==
    /\ CanCall
    /\ nextId <= MaxTasks
    /\ queue' = QueueAdd(nextId)
    /\ nextId' = nextId + 1
    /\ burst' = 0
    /\ UNCHANGED <<mapVars, rafPending, stack, taskRuns, taskCancelled, sinceIdle>>
    /\ UNCHANGED rttVars

\* _requestRenderFrame(callback): this._update(); return this._renderTaskQueue.add(callback)
RequestRenderFrame ==
    /\ CanCall
    /\ nextId <= MaxTasks
    /\ UpdateBody(FALSE)
    /\ UpdateNoted
    /\ queue' = QueueAdd(nextId)
    /\ nextId' = nextId + 1
    /\ UNCHANGED <<style, styleLoaded, placementDirty, removed, repaint, loaded,
                   crossFadingFactor, moving, stack, taskRuns, taskCancelled>>
    /\ UNCHANGED rttVars

Pending(id) ==
    \/ id \in Range(queue)
    \/ \E k \in 1..Len(stack) : id \in Range(stack[k].running)

\* TaskQueue.remove(id): a pending task with this id will not run.
QueueRemove(q, id) == RemoveId(q, id)

\* Mutant: _cancelRenderFrame that does not reach the queue.
CancelRenderFrameNoop(id) ==
    /\ CanCall
    /\ taskCancelled' = [taskCancelled EXCEPT ![id] = @ \/ Pending(id)]
    /\ burst' = 0
    /\ UNCHANGED <<mapVars, hostVars, taskRuns, sinceIdle>>
    /\ UNCHANGED rttVars

\* _cancelRenderFrame(id): this._renderTaskQueue.remove(id)
CancelRenderFrame(id) ==
    /\ CanCall
    /\ queue' = QueueRemove(queue, id)
    /\ stack' = [k \in 1..Len(stack) |->
                    [stack[k] EXCEPT !.running = QueueRemove(stack[k].running, id)]]
    /\ taskCancelled' = [taskCancelled EXCEPT ![id] = @ \/ Pending(id)]
    /\ burst' = 0
    /\ UNCHANGED <<mapVars, rafPending, nextId, taskRuns, sinceIdle>>
    /\ UNCHANGED rttVars

TriggerRepaint ==
    /\ CanCall
    /\ TriggerRepaintBody
    /\ burst' = 0
    /\ UNCHANGED <<style, styleLoaded, styleDirty, sourcesDirty, placementDirty, removed,
                   repaint, loaded, crossFadingFactor, moving, queue, nextId,
                   stack, taskRuns, taskCancelled, sinceIdle>>
    /\ UNCHANGED rttVars

\* Mutant: redraw that leaves the scheduled frame in place.
RedrawKeepsFrame ==
    /\ CanCall
    /\ IF style
       THEN /\ Len(stack) < MaxDepth
            /\ stack' = Append(stack, NewActivation)
            /\ queue' = QueueAfterSnapshot(queue)
            /\ UNCHANGED <<frame, rafPending>>
       ELSE UNCHANGED <<frame, rafPending, stack, queue>>
    /\ burst' = 0
    /\ UNCHANGED <<style, styleLoaded, styleDirty, sourcesDirty, placementDirty, removed,
                   repaint, loaded, crossFadingFactor, moving, nextId,
                   taskRuns, taskCancelled, sinceIdle>>
    /\ UNCHANGED rttVars

\* redraw(): with a style, cancel the scheduled frame and run _render(0) now.
Redraw ==
    /\ CanCall
    /\ IF style
       THEN /\ Len(stack) < MaxDepth
            /\ CancelFrameBody
            /\ stack' = Append(stack, NewActivation)
            /\ queue' = QueueAfterSnapshot(queue)
       ELSE UNCHANGED <<frame, rafPending, stack, queue>>
    /\ burst' = 0
    /\ UNCHANGED <<style, styleLoaded, styleDirty, sourcesDirty, placementDirty, removed,
                   repaint, loaded, crossFadingFactor, moving, nextId,
                   taskRuns, taskCancelled, sinceIdle>>
    /\ UNCHANGED rttVars

\* TaskQueue.clear(): no queued task runs any more, in a drain in progress either.
QueueClear(q) == <<>>

\* Mutant: remove() that leaves the scheduled frame in place.
RemoveKeepsFrame ==
    /\ CanCall
    /\ ~removed
    /\ queue' = QueueClear(queue)
    /\ stack' = [k \in 1..Len(stack) |->
                    [stack[k] EXCEPT !.running = QueueClear(stack[k].running)]]
    /\ style' = FALSE
    /\ removed' = TRUE
    /\ burst' = 0
    /\ UNCHANGED <<styleLoaded, styleDirty, sourcesDirty, placementDirty, frame, repaint,
                   loaded, crossFadingFactor, moving, rafPending, nextId, taskRuns,
                   taskCancelled, sinceIdle>>
    /\ UNCHANGED rttVars

\* remove(): cancel the frame, clear the task queue, drop the style, set _removed.
Remove ==
    /\ CanCall
    /\ ~removed
    /\ CancelFrameBody
    /\ queue' = QueueClear(queue)
    /\ stack' = [k \in 1..Len(stack) |->
                    [stack[k] EXCEPT !.running = QueueClear(stack[k].running)]]
    /\ style' = FALSE
    /\ removed' = TRUE
    /\ burst' = 0
    /\ UNCHANGED <<styleLoaded, styleDirty, sourcesDirty, placementDirty, repaint, loaded,
                   crossFadingFactor, moving, nextId, taskRuns, taskCancelled, sinceIdle>>
    /\ UNCHANGED rttVars

\* set repaint(value)
SetRepaint(value) ==
    /\ CanCall
    /\ IF repaint # value
       THEN repaint' = value /\ TriggerRepaintBody
       ELSE UNCHANGED <<repaint, frame, rafPending>>
    /\ burst' = 0
    /\ UNCHANGED <<style, styleLoaded, styleDirty, sourcesDirty, placementDirty, removed,
                   loaded, crossFadingFactor, moving, queue, nextId,
                   stack, taskRuns, taskCancelled, sinceIdle>>
    /\ UNCHANGED rttVars

\* _updateStyle(style): setStyle(null) deletes the style, a new style starts unloaded.
UpdateStyle(newStyle) ==
    /\ CanCall
    /\ style' = newStyle
    /\ styleLoaded' = FALSE
    /\ burst' = 0
    /\ UNCHANGED <<styleDirty, sourcesDirty, placementDirty, frame, removed, repaint,
                   loaded, crossFadingFactor, moving, hostVars,
                   taskRuns, taskCancelled, sinceIdle>>
    /\ UNCHANGED rttVars

\* Camera motion starts or ends (isMoving()).
SetMoving(value) ==
    /\ CanCall
    /\ moving # value
    /\ moving' = value
    /\ burst' = 0
    /\ UNCHANGED <<style, styleLoaded, styleDirty, sourcesDirty, placementDirty, frame,
                   removed, repaint, loaded, crossFadingFactor, hostVars,
                   taskRuns, taskCancelled, sinceIdle>>
    /\ UNCHANGED rttVars

\* _contextLost(event): cancel the scheduled frame.  The listener is a DOM
\* event listener, called by the host between frames until remove() detaches it.
ContextLost ==
    /\ AtTopLevel
    /\ ~removed
    /\ CancelFrameBody
    /\ burst' = 0
    /\ UNCHANGED <<style, styleLoaded, styleDirty, sourcesDirty, placementDirty, removed,
                   repaint, loaded, crossFadingFactor, moving, queue, nextId,
                   stack, taskRuns, taskCancelled, sinceIdle>>
    /\ UNCHANGED rttVars

\* _contextRestored(event): this._update()
ContextRestored ==
    /\ AtTopLevel
    /\ ~removed
    /\ UpdateBody(FALSE)
    /\ UpdateNoted
    /\ UNCHANGED <<style, styleLoaded, placementDirty, removed, repaint, loaded,
                   crossFadingFactor, moving, queue, nextId, stack,
                   taskRuns, taskCancelled>>
    /\ UNCHANGED rttVars

\* ------------------------------------------------------ the frame callback
\* Mutant: the callback does not reset this._frame.
FrameCallbackKeepsHandle ==
    /\ AtTopLevel
    /\ rafPending > 0
    /\ rafPending' = rafPending - 1
    /\ stack' = Append(stack, NewActivation)
    /\ queue' = QueueAfterSnapshot(queue)
    /\ burst' = 0
    /\ UNCHANGED <<mapVars, nextId, taskRuns, taskCancelled, sinceIdle>>
    /\ UNCHANGED rttVars

\* The host fires the callback registered by triggerRepaint:
\* this._frame = null; this._render(paintStartTimeStamp).
FrameCallback ==
    /\ AtTopLevel
    /\ rafPending > 0
    /\ frame' = FALSE
    /\ rafPending' = rafPending - 1
    /\ stack' = Append(stack, NewActivation)
    /\ queue' = QueueAfterSnapshot(queue)
    /\ burst' = 0
    /\ UNCHANGED <<style, styleLoaded, styleDirty, sourcesDirty, placementDirty, removed,
                   repaint, loaded, crossFadingFactor, moving, nextId,
                   taskRuns, taskCancelled, sinceIdle>>
    /\ UNCHANGED rttVars

\* ------------------------------------------------------------ Map._render
Goto(r, p) == [r EXCEPT !.pc = p]

InDrain == stack # <<>> /\ Top.pc \in {"drain", "inTask"}

\* TaskQueue.run: the next task of the drain's snapshot runs its callback.
RunTask ==
    /\ InDrain
    /\ Top.running # <<>>
    /\ LET id == Head(Top.running) IN
        /\ stack' = SetTop([Top EXCEPT !.running = Tail(@), !.pc = "inTask", !.task = id])
        /\ taskRuns' = [taskRuns EXCEPT ![id] = @ + 1]
    /\ UNCHANGED <<mapVars, rafPending, queue, nextId, burst, taskCancelled, sinceIdle>>
    /\ UNCHANGED rttVars

\* if (this._removed) return;
RemovedReturn ==
    /\ InDrain
    /\ Top.running = <<>>
    /\ removed
    /\ stack' = Pop
    /\ UNCHANGED <<mapVars, rafPending, queue, nextId, ghostVars>>
    /\ UNCHANGED rttVars

\* Mutant: crossfading only when the factor differs from the stored one.
CrossFadingOnChange(factor) == factor # crossFadingFactor

\* Mutant: every style evaluation counts as crossfading.
CrossFadingAlways(factor) == factor \in Factors

\* parameters.crossFadingFactor() against this._crossFadingFactor
CrossFading(factor) == factor # 1 \/ factor # crossFadingFactor

\* Mutant: _render without the test of this._removed after the drain.
StyleStageNoRemovedTest ==
    /\ InDrain
    /\ Top.running = <<>>
    /\ stack' = SetTop(Goto(Top, "sources"))
    /\ UNCHANGED <<mapVars, rafPending, queue, nextId, ghostVars>>
    /\ UNCHANGED rttVars

\* if (this.style && this._styleDirty) { ... this.style.update(parameters) }
StyleStage ==
    /\ InDrain
    /\ Top.running = <<>>
    /\ ~removed
    /\ IF style /\ styleDirty
       THEN \E factor \in Factors, nowLoaded \in BOOLEAN :
              /\ styleDirty' = FALSE
              /\ crossFadingFactor' = IF CrossFading(factor) THEN factor ELSE crossFadingFactor
              /\ styleLoaded' = nowLoaded
              /\ stack' = SetTop(Goto([Top EXCEPT !.crossFading = CrossFading(factor),
                                                  !.fading = factor # 1],
                                      "inStyleUpdate"))
       ELSE /\ stack' = SetTop(Goto(Top, "sources"))
            /\ UNCHANGED <<styleDirty, crossFadingFactor, styleLoaded>>
    /\ UNCHANGED <<style, sourcesDirty, placementDirty, frame, removed, repaint, loaded,
                   moving, rafPending, queue, nextId, ghostVars>>
    /\ UNCHANGED rttVars

\* if (this.style && this._sourcesDirty) { ... this.style._updateSources(...) }
SourcesStage ==
    /\ stack # <<>>
    /\ Top.pc \in {"sources", "inStyleUpdate"}
    /\ IF style /\ sourcesDirty
       THEN \E nowLoaded \in BOOLEAN :
              /\ sourcesDirty' = FALSE
              /\ styleLoaded' = nowLoaded
              /\ stack' = SetTop(Goto(Top, "inSourcesUpdate"))
       ELSE /\ stack' = SetTop(Goto(Top, "terrain"))
            /\ UNCHANGED <<sourcesDirty, styleLoaded>>
    /\ UNCHANGED <<style, styleDirty, placementDirty, frame, removed, repaint, loaded,
                   crossFadingFactor, moving, rafPending, queue, nextId, ghostVars>>
    /\ UNCHANGED rttVars

\* Mutant: the placement update is left out before the draw.
TerrainStageSkipsPlacement ==
    /\ stack # <<>>
    /\ Top.pc \in {"terrain", "inSourcesUpdate"}
    /\ stack' = IF style THEN SetTop(Goto(Top, "draw")) ELSE <<>>
    /\ UNCHANGED <<mapVars, rafPending, queue, nextId, ghostVars>>
    /\ UNCHANGED rttVars

\* if (this.style.terrain) ...; this.transform.updateElevation(this.style.terrain)
\* reads this.style unguarded: without a style it throws, and the exception
\* unwinds every activation up to the host.
TerrainStage ==
    /\ stack # <<>>
    /\ Top.pc \in {"terrain", "inSourcesUpdate"}
    /\ stack' = IF style THEN SetTop(Goto(Top, "placement")) ELSE <<>>
    /\ UNCHANGED <<mapVars, rafPending, queue, nextId, ghostVars>>
    /\ UNCHANGED rttVars

\* this._placementDirty = this.style && this.style._updatePlacement(...)
PlacementStage ==
    /\ At("placement")
    /\ \E dirty \in BOOLEAN : placementDirty' = (style /\ dirty)
    /\ stack' = SetTop(Goto(Top, "draw"))
    /\ UNCHANGED <<style, styleLoaded, styleDirty, sourcesDirty, frame, removed, repaint,
                   loaded, crossFadingFactor, moving, rafPending, queue, nextId, ghostVars>>
    /\ UNCHANGED rttVars

\* this.painter.render(this.style, ...); this.fire(new Event('render'))
DrawStage ==
    /\ At("draw")
    /\ stack' = SetTop(Goto(Top, "inRender"))
    /\ UNCHANGED <<mapVars, rafPending, queue, nextId, ghostVars>>
    /\ UNCHANGED rttVars

\* Mutant: loaded() that ignores this._sourcesDirty.
LoadedIgnoresSources(sd, so) == ~sd /\ style /\ styleLoaded

\* loaded(), on given values of _styleDirty and _sourcesDirty
LoadedWith(sd, so) == ~sd /\ ~so /\ style /\ styleLoaded
Loaded == LoadedWith(styleDirty, sourcesDirty)

\* Mutant: the 'load' branch does not set this._loaded.
LoadStageKeepsUnloaded ==
    /\ At("inRender")
    /\ stack' = SetTop(Goto(Top, IF Loaded /\ ~loaded THEN "inLoad" ELSE "decide"))
    /\ UNCHANGED <<mapVars, rafPending, queue, nextId, ghostVars>>
    /\ UNCHANGED rttVars

\* Mutant: the 'load' branch fires 'idle' as well.
LoadStageFiresIdle ==
    /\ At("inRender")
    /\ IF Loaded /\ ~loaded
       THEN /\ loaded' = TRUE
            /\ stack' = SetTop(Goto([Top EXCEPT !.idles = @ + 1], "inLoad"))
            /\ sinceIdle' = IdleNoted
       ELSE /\ stack' = SetTop(Goto(Top, "decide"))
            /\ UNCHANGED <<loaded, sinceIdle>>
    /\ UNCHANGED <<style, styleLoaded, styleDirty, sourcesDirty, placementDirty, frame,
                   removed, repaint, crossFadingFactor, moving, rafPending,
                   queue, nextId, burst, taskRuns, taskCancelled>>
    /\ UNCHANGED rttVars

\* if (this.loaded() && !this._loaded) { this._loaded = true; fire 'load' }
LoadStage ==
    /\ At("inRender")
    /\ IF Loaded /\ ~loaded
       THEN /\ loaded' = TRUE
            /\ stack' = SetTop(Goto(Top, "inLoad"))
       ELSE /\ stack' = SetTop(Goto(Top, "decide"))
            /\ UNCHANGED loaded
    /\ UNCHANGED <<style, styleLoaded, styleDirty, sourcesDirty, placementDirty, frame,
                   removed, repaint, crossFadingFactor, moving, rafPending,
                   queue, nextId, ghostVars>>
    /\ UNCHANGED rttVars

\* Mutant: the test of isMoving() has lost its negation.
FiresIdleWhileMoving(sd) == moving /\ LoadedWith(sd, sourcesDirty)

\* else if (!this.isMoving() && this.loaded()), with _styleDirty as just set
FiresIdle(sd) == ~moving /\ LoadedWith(sd, sourcesDirty)

\* Mutant: the decision fires 'idle' whenever the map is loaded and still.
DecideIdleFirst ==
    /\ stack # <<>>
    /\ Top.pc \in {"decide", "inLoad"}
    /\ IF FiresIdle(styleDirty)
       THEN /\ stack' = SetTop(Goto([Top EXCEPT !.idles = @ + 1], "inIdle"))
            /\ sinceIdle' = IdleNoted
            /\ UNCHANGED <<frame, rafPending>>
       ELSE /\ TriggerRepaintBody
            /\ stack' = SetTop(Goto(Top, "finish"))
            /\ UNCHANGED sinceIdle
    /\ UNCHANGED <<style, styleLoaded, styleDirty, sourcesDirty, placementDirty, removed,
                   repaint, loaded, crossFadingFactor, moving, queue, nextId,
                   burst, taskRuns, taskCancelled>>
    /\ UNCHANGED rttVars

\* Mutant: the decision without the crossfading test of line 2673.
DecideNoCrossFading ==
    /\ stack # <<>>
    /\ Top.pc \in {"decide", "inLoad"}
    /\ \E hasTransitions \in (IF style THEN BOOLEAN ELSE {FALSE}) :
         LET again == style /\ hasTransitions
             dirty == sourcesDirty \/ (styleDirty \/ again) \/ placementDirty
             alone == hasTransitions /\ ~Top.crossFading /\ ~styleDirty
         IN /\ styleDirty' = (styleDirty \/ again)
            /\ IF dirty \/ repaint
               THEN /\ TriggerRepaintBody
                    /\ stack' = SetTop(Goto([Top EXCEPT !.transitions = alone],
                                            "finish"))
                    /\ UNCHANGED sinceIdle
               ELSE /\ UNCHANGED <<frame, rafPending>>
                    /\ IF FiresIdle(styleDirty \/ again)
                       THEN /\ stack' = SetTop(Goto([Top EXCEPT !.idles = @ + 1,
                                                                !.transitions = alone],
                                                    "inIdle"))
                            /\ sinceIdle' = IdleNoted
                       ELSE /\ stack' = SetTop(Goto([Top EXCEPT !.transitions = alone],
                                                    "finish"))
                            /\ UNCHANGED sinceIdle
    /\ UNCHANGED <<style, styleLoaded, sourcesDirty, placementDirty, removed, repaint,
                   loaded, crossFadingFactor, moving, queue, nextId,
                   burst, taskRuns, taskCancelled>>
    /\ UNCHANGED rttVars

\* Mutant: line 2674 assigns the test to _styleDirty instead of setting it.
DecideAssignsStyleDirty ==
    /\ stack # <<>>
    /\ Top.pc \in {"decide", "inLoad"}
    /\ \E hasTransitions \in (IF style THEN BOOLEAN ELSE {FALSE}) :
         LET again == style /\ (hasTransitions \/ Top.crossFading)
             dirty == sourcesDirty \/ again \/ placementDirty
             alone == hasTransitions /\ ~Top.crossFading /\ ~styleDirty
         IN /\ styleDirty' = again
            /\ IF dirty \/ repaint
               THEN /\ TriggerRepaintBody
                    /\ stack' = SetTop(Goto([Top EXCEPT !.transitions = alone],
                                            "finish"))
                    /\ UNCHANGED sinceIdle
               ELSE /\ UNCHANGED <<frame, rafPending>>
                    /\ IF FiresIdle(again)
                       THEN /\ stack' = SetTop(Goto([Top EXCEPT !.idles = @ + 1,
                                                                !.transitions = alone],
                                                    "inIdle"))
                            /\ sinceIdle' = IdleNoted
                       ELSE /\ stack' = SetTop(Goto([Top EXCEPT !.transitions = alone],
                                                    "finish"))
                            /\ UNCHANGED sinceIdle
    /\ UNCHANGED <<style, styleLoaded, sourcesDirty, placementDirty, removed, repaint,
                   loaded, crossFadingFactor, moving, queue, nextId,
                   burst, taskRuns, taskCancelled>>
    /\ UNCHANGED rttVars

\* Lines 2673-2721: set _styleDirty again for transitions or crossfading, then
\* request another frame if anything is dirty or repaint is on, else fire 'idle'
\* when the map is not moving and is loaded.
Decide ==
    /\ stack # <<>>
    /\ Top.pc \in {"decide", "inLoad"}
    /\ \E hasTransitions \in (IF style THEN BOOLEAN ELSE {FALSE}) :
         LET again == style /\ (hasTransitions \/ Top.crossFading)
             dirty == sourcesDirty \/ (styleDirty \/ again) \/ placementDirty
             alone == hasTransitions /\ ~Top.crossFading /\ ~styleDirty
         IN /\ styleDirty' = (styleDirty \/ again)
            /\ IF dirty \/ repaint
               THEN /\ TriggerRepaintBody
                    /\ stack' = SetTop(Goto([Top EXCEPT !.transitions = alone],
                                            "finish"))
                    /\ UNCHANGED sinceIdle
               ELSE /\ UNCHANGED <<frame, rafPending>>
                    /\ IF FiresIdle(styleDirty \/ again)
                       THEN /\ stack' = SetTop(Goto([Top EXCEPT !.idles = @ + 1,
                                                                !.transitions = alone],
                                                    "inIdle"))
                            /\ sinceIdle' = IdleNoted
                       ELSE /\ stack' = SetTop(Goto([Top EXCEPT !.transitions = alone],
                                                    "finish"))
                            /\ UNCHANGED sinceIdle
    /\ UNCHANGED <<style, styleLoaded, sourcesDirty, placementDirty, removed, repaint,
                   loaded, crossFadingFactor, moving, queue, nextId,
                   burst, taskRuns, taskCancelled>>
    /\ UNCHANGED rttVars

\* return this
Finish ==
    /\ stack # <<>>
    /\ Top.pc \in {"finish", "inIdle"}
    /\ stack' = Pop
    /\ UNCHANGED <<mapVars, rafPending, queue, nextId, ghostVars>>
    /\ UNCHANGED rttVars

\* A step of a pipeline execution in progress.
Pipeline ==
    \/ RunTask
    \/ RemovedReturn
    \/ StyleStage
    \/ SourcesStage
    \/ TerrainStage
    \/ PlacementStage
    \/ DrawStage
    \/ LoadStage
    \/ Decide
    \/ Finish

\* The host calls redraw() between frames only, and neither sets a style on
\* a removed map nor moves its camera.
Next ==
    \/ \E u \in BOOLEAN : Update(u)
    \/ \E u, l \in BOOLEAN : StyleData(u, l)
    \/ RequestRenderFrame
    \/ \E id \in TaskIds : CancelRenderFrame(id)
    \/ TriggerRepaint
    \/ (AtTopLevel /\ Redraw)
    \/ Remove
    \/ \E v \in BOOLEAN : SetRepaint(v)
    \/ \E s \in BOOLEAN : (~removed /\ UpdateStyle(s))
    \/ \E v \in BOOLEAN : (~removed /\ SetMoving(v))
    \/ ContextLost
    \/ ContextRestored
    \/ FrameCallback
    \/ Pipeline

Spec == Init /\ [][Next]_vars

\* The map when the host calls it between frames only: the task callbacks,
\* the style and source updates and the event handlers call nothing back
\* except remove().
NextHost ==
    \/ (AtTopLevel /\ \E u \in BOOLEAN : Update(u))
    \/ (AtTopLevel /\ \E u, l \in BOOLEAN : StyleData(u, l))
    \/ (AtTopLevel /\ RequestRenderFrame)
    \/ (AtTopLevel /\ \E id \in TaskIds : CancelRenderFrame(id))
    \/ (AtTopLevel /\ TriggerRepaint)
    \/ (AtTopLevel /\ Redraw)
    \/ Remove
    \/ (AtTopLevel /\ \E v \in BOOLEAN : SetRepaint(v))
    \/ (AtTopLevel /\ \E s \in BOOLEAN : (~removed /\ UpdateStyle(s)))
    \/ (AtTopLevel /\ \E v \in BOOLEAN : (~removed /\ SetMoving(v)))
    \/ ContextLost
    \/ ContextRestored
    \/ FrameCallback
    \/ Pipeline

SpecHost == Init /\ [][NextHost]_vars

\* External code called by the pipeline may also call redraw().
NextReentrant ==
    \/ \E u \in BOOLEAN : Update(u)
    \/ RequestRenderFrame
    \/ TriggerRepaint
    \/ Redraw
    \/ Remove
    \/ FrameCallback
    \/ Pipeline

SpecReentrant == Init /\ [][NextReentrant]_vars

\* The map while its WebGL context is not lost and with one task requested,
\* with a host that calls every registered frame callback and external code
\* that returns.
NextLive ==
    \/ \E u \in BOOLEAN : Update(u)
    \/ \E u, l \in BOOLEAN : StyleData(u, l)
    \/ (nextId = 1 /\ RequestRenderFrame)
    \/ \E id \in TaskIds : CancelRenderFrame(id)
    \/ TriggerRepaint
    \/ (AtTopLevel /\ Redraw)
    \/ Remove
    \/ \E v \in BOOLEAN : SetRepaint(v)
    \/ \E s \in BOOLEAN : (~removed /\ UpdateStyle(s))
    \/ \E v \in BOOLEAN : (~removed /\ SetMoving(v))
    \/ FrameCallback
    \/ Pipeline

SpecLive == Init /\ [][NextLive]_vars /\ WF_vars(FrameCallback) /\ WF_vars(Pipeline)

\* External code called by the pipeline (a task callback, the style or
\* source update, a 'render', 'load' or 'idle' handler) throws: _render has
\* no try, so the activation is left at once.
Throw ==
    /\ stack # <<>>
    /\ Top.pc \in YieldPcs
    /\ stack' = SetTop(Goto(Top, "thrown"))
    /\ UNCHANGED <<mapVars, rafPending, queue, nextId, ghostVars>>
    /\ UNCHANGED rttVars

\* The exception leaves _render and reaches its caller: the host's frame
\* driver, or the external code that called redraw().
Unwind ==
    /\ At("thrown")
    /\ stack' = Pop
    /\ UNCHANGED <<mapVars, rafPending, queue, nextId, ghostVars>>
    /\ UNCHANGED rttVars

NextThrow ==
    \/ NextLive
    \/ Throw
    \/ Unwind

SpecThrow ==
    /\ Init /\ [][NextThrow]_vars
    /\ WF_vars(FrameCallback) /\ WF_vars(Pipeline) /\ WF_vars(Unwind)

\* ------------------------------------------------------------------ claims

C2_SingleFrame ==
    /\ [](rafPending <= 1 /\ (frame <=> rafPending = 1))
    /\ [][(frame /\ TriggerRepaint) => UNCHANGED <<mapVars, hostVars>>]_vars

C2_Witness == AtTopLevel /\ frame /\ rafPending = 1 /\ burst = 0 /\ sourcesDirty

\* C3: once _removed is set no activation of _render starts, whether a frame
\* was scheduled or tasks were queued at the removal, and whichever of _update,
\* _requestRenderFrame, triggerRepaint, redraw or the repaint setter is called
\* afterwards.
C3_NoRenderAfterRemove == [][removed => Len(stack') <= Len(stack)]_vars

\* A task was requested after the removal and no frame is scheduled for it.
C3_Witness == removed /\ stack = <<>> /\ queue # <<>> /\ ~frame /\ rafPending = 0

\* What C4 says holds when _update(updateStyle) returns.
UpdatePost(updateStyle) ==
    /\ sourcesDirty'
    /\ updateStyle => styleDirty'
    /\ frame' /\ rafPending' = 1
    /\ stack' = stack

\* C4 as stated: on every map that has not been removed, with or without a
\* style, _update(styleChanged) returns with sourcesDirty, with styleDirty when
\* styleChanged, with a frame requested and with no pipeline stage run.
C4_Original ==
    [][\A u \in BOOLEAN : (~removed /\ Update(u)) => UpdatePost(u)]_vars

\* C4 amended: the same on every map that has a style set; without a style
\* _update changes no flag and requests no frame.
C4_Update ==
    /\ [][\A u \in BOOLEAN : (style /\ Update(u)) => UpdatePost(u)]_vars
    /\ [][\A u \in BOOLEAN : (~style /\ Update(u)) =>
            UNCHANGED <<mapVars, hostVars>>]_vars

C4_Witness == style /\ ~removed /\ burst >= 1 /\ sourcesDirty /\ styleDirty /\ frame

\* What C5 says holds when _requestRenderFrame(callback) returns.
RequestPost == nextId \in Range(queue') /\ frame' /\ rafPending' = 1

C6_Tasks ==
    /\ [](\A id \in TaskIds :
            /\ taskRuns[id] <= 1
            /\ taskCancelled[id] => taskRuns[id] = 0)
    /\ [](\A k \in 1..Len(stack) :
            stack[k].pc = "inTask" => stack[k].task \in stack[k].snap)
    /\ [][\A id \in TaskIds : (~Pending(id) /\ CancelRenderFrame(id)) =>
            UNCHANGED <<mapVars, hostVars, taskRuns, taskCancelled>>]_vars

\* One task ran and another was cancelled while pending and never ran.
C6_Witness ==
    /\ \E i, j \in TaskIds : taskRuns[i] = 1 /\ taskCancelled[j] /\ taskRuns[j] = 0
    /\ stack = <<>>

\* A task added during a drain is still queued while a callback of the drain runs.
C6_WitnessDuringDrain == At("inTask") /\ queue # <<>>

\* C7: within an activation of _render the position only moves from one stage
\* to the next (drain, style, sources, terrain, placement, draw and 'render',
\* 'load', decision), the style and source updates run only when their flag
\* is set, and a new activation starts with the drain.
C7_StageOrder ==
    /\ [][(stack # <<>> /\ Len(stack') = Len(stack) /\ Top'.pc # Top.pc) =>
            /\ \/ PcRank(Top'.pc) = PcRank(Top.pc) + 1
               \/ (PcRank(Top'.pc) = 1 /\ PcRank(Top.pc) = 1)
            /\ Top'.pc = "inStyleUpdate" => (style /\ styleDirty)
            /\ Top'.pc = "inSourcesUpdate" => (style /\ sourcesDirty)]_vars
    /\ [][Len(stack') > Len(stack) => Top'.pc = "drain"]_vars

\* An execution that ran its style update has reached the end of the pipeline.
C7_Witness == At("finish") /\ Top.crossFading /\ placementDirty

\* C8: no activation of _render begins while another is in progress.
C8_NoOverlap == Len(stack) <= 1

\* The frame ends with nothing dirty, repaint off and no camera motion.
EndsClean == ~styleDirty /\ ~sourcesDirty /\ ~placementDirty /\ ~repaint /\ ~moving

\* C9 as stated: an execution whose decision finds nothing dirty, repaint off
\* and no camera motion has emitted exactly one 'idle'.
C9_Original ==
    /\ (At("finish") /\ EndsClean) => Top.idles = 1
    /\ \A k \in 1..Len(stack) : stack[k].idles <= 1

\* C9 amended: the same when, in addition, a style is set and reports loaded.
C9_IdleEmission ==
    /\ (At("finish") /\ EndsClean /\ style /\ styleLoaded) => Top.idles = 1
    /\ \A k \in 1..Len(stack) :
         stack[k].idles <= 1 /\ (stack[k].pc = "inIdle" => stack[k].idles = 1)

C9_Witness == At("inIdle") /\ Top.idles = 1 /\ EndsClean /\ style /\ styleLoaded

\* An activation emits 'idle' in this step.
IdleEmitted ==
    \E k \in 1..Len(stack) : k <= Len(stack') /\ stack'[k].idles > stack[k].idles

\* C10 as stated: 'idle' does not fire again until _update has been called
\* after the previous 'idle'.
C10_Original == sinceIdle # "again"

\* C10 amended: 'idle' is emitted only by the decision stage of a pipeline
\* execution that has not emitted it before, so a further 'idle' takes a
\* further execution reaching its decision, not a call of _update.
C10_IdlePerExecution ==
    [][IdleEmitted =>
        /\ Top.pc \in {"decide", "inLoad"}
        /\ Top.idles = 0
        /\ Len(stack') = Len(stack)
        /\ Top'.pc = "inIdle"
        /\ \A k \in 1..(Len(stack) - 1) : stack'[k] = stack[k]]_vars

\* 'idle' fired twice with no _update in between.
C10_Witness == sinceIdle = "again" /\ At("inIdle")

\* Some flag is dirty or continuous repaint is on.
WantsFrame == styleDirty \/ sourcesDirty \/ placementDirty \/ repaint

\* C11 as stated: an execution that ends with a dirty flag set or continuous
\* repaint on has emitted no 'idle' and leaves a frame request outstanding.
C11_Original ==
    (At("finish") /\ WantsFrame) => (Top.idles = 0 /\ frame /\ rafPending = 1)

\* C11 amended: such an execution has emitted no 'idle' ('idle' is emitted
\* only with every flag clean and repaint off), and leaves a frame request
\* outstanding when a style is still set at its decision; while repaint
\* stays on and the style stays set, and the context is not lost, an
\* execution that ends is followed by the start of another.
C11_Reschedule ==
    /\ []((At("finish") /\ WantsFrame) => Top.idles = 0)
    /\ [][IdleEmitted => ~WantsFrame']_vars
    /\ []((At("finish") /\ WantsFrame /\ style) => (frame /\ rafPending = 1))
    /\ (At("finish") /\ repaint /\ style) ~> (At("drain") \/ ~repaint \/ ~style)

C11_Witness == At("finish") /\ repaint /\ ~styleDirty /\ ~sourcesDirty /\ ~placementDirty
               /\ style /\ styleLoaded /\ ~moving /\ frame

\* The innermost activation fires 'load' in this step.
LoadEmitted == stack # <<>> /\ Len(stack') = Len(stack) /\ Top.pc # "inLoad" /\ Top'.pc = "inLoad"

\* C12: 'load' is fired only by the step that follows the 'render' handlers,
\* only when loaded() holds and _loaded is not set, and that step sets _loaded,
\* which is never reset: 'load' is fired at most once, in the first execution
\* that finds loaded() true after its 'render' notification.
C12_LoadOnce ==
    /\ [][LoadEmitted => (Top.pc = "inRender" /\ Loaded /\ ~loaded /\ loaded')]_vars
    /\ [][loaded => loaded']_vars
    /\ [][(At("inRender") /\ Loaded /\ ~loaded /\ Top'.pc # Top.pc) => LoadEmitted]_vars

C12_Witness == At("inLoad") /\ loaded /\ Top.idles = 0

\* C13: once the map is removed during the drain, the execution takes no
\* step past the drain, runs no further task, and no frame is scheduled.
C13_RemovedInDrain ==
    /\ [][(InDrain /\ removed) =>
            /\ Len(stack') <= Len(stack)
            /\ Len(stack') = Len(stack) => PcRank(Top'.pc) = 1
            /\ taskRuns' = taskRuns]_vars
    /\ [](removed => (~frame /\ rafPending = 0))

C13_Witness == At("inTask") /\ removed /\ ~frame /\ sourcesDirty

\* C14: redraw() with a style leaves no frame request registered, so the
\* callback of a cancelled request never runs, and starts one activation of
\* _render at its drain; redraw() without a style changes nothing.
C14_Redraw ==
    /\ [][(style /\ Redraw) =>
            /\ ~frame' /\ rafPending' = 0
            /\ stack' = Append(stack, [Top' EXCEPT !.pc = "drain"])
            /\ Top'.idles = 0]_vars
    /\ [][(~style /\ Redraw) => UNCHANGED <<mapVars, hostVars>>]_vars

\* A redraw has started an execution and cancelled the frame that _update requested.
C14_Witness == At("drain") /\ ~frame /\ rafPending = 0 /\ sourcesDirty /\ style

\* C15: loaded() is false while _styleDirty or _sourcesDirty is set, without
\* a style, or while the style reports not loaded; _update on a map with a
\* style sets _sourcesDirty, and only the source-update stage of _render
\* clears it, so loaded() is false from the call until that stage has run.
C15_Loaded ==
    /\ [](Loaded => (~styleDirty /\ ~sourcesDirty /\ style /\ styleLoaded))
    /\ [][\A u \in BOOLEAN : (style /\ Update(u)) => (sourcesDirty' /\ ~Loaded')]_vars
    /\ [][(sourcesDirty /\ ~sourcesDirty') =>
            (stack # <<>> /\ Top.pc \in {"sources", "inStyleUpdate"}
             /\ Top'.pc = "inSourcesUpdate")]_vars

C15_Witness == style /\ styleLoaded /\ ~styleDirty /\ sourcesDirty /\ AtTopLevel /\ loaded

\* A frame's traversal of the layers is complete.
FrameDone == frameNo >= 1 /\ currentLayer = Len(layerOrder) /\ ~Thrown

\* The last position of the run of compositable layers that starts at i.
RunEnd(order, i) ==
    CHOOSE j \in i..Len(order) :
        /\ \A k \in i..j : order[k] \in Compositable
        /\ j < Len(order) => order[j + 1] \notin Compositable

\* The maximal runs of consecutive compositable layers and one single-layer
\* stack for each hillshade layer, in the order of the layers, from position i.
RECURSIVE ExpectedStacks(_, _)
ExpectedStacks(order, i) ==
    IF i > Len(order) THEN <<>>
    ELSE IF order[i] \in Compositable
         THEN <<[k \in 1..(RunEnd(order, i) - i + 1) |-> i + k - 1]>>
                  \o ExpectedStacks(order, RunEnd(order, i) + 1)
         ELSE IF order[i] = "hillshade"
              THEN <<<<i>>>> \o ExpectedStacks(order, i + 1)
              ELSE ExpectedStacks(order, i + 1)

\* C16: after a full traversal of any layer order the stacks are the maximal
\* runs of consecutive compositable layers and one single-layer stack per
\* hillshade layer, in layer order, and renderLayer returned a falsy value
\* exactly for the layers that are neither: those are in no stack.
C16_Stacks ==
    FrameDone =>
        /\ stacks = ExpectedStacks(layerOrder, 1)
        /\ passed = {i \in 1..Len(layerOrder) :
                        layerOrder[i] \notin Compositable \cup {"hillshade"}}
        /\ \A i \in passed : \A k \in 1..Len(stacks) :
                \A j \in 1..Len(stacks[k]) : stacks[k][j] # i

\* [background, fill, symbol, fill, hillshade] yields [[background, fill], [fill], [hillshade]].
C16_Witness ==
    /\ FrameDone
    /\ layerOrder = <<"background", "fill", "symbol", "fill", "hillshade">>
    /\ stacks = << <<1, 2>>, <<4>>, <<5>> >>
    /\ passed = {3}

\* Stack k of this frame is a run of compositable layers.
CompStack(k) == k \in 1..Len(stacks) /\ layerOrder[stacks[k][1]] \in Compositable

\* C17: in a frame that follows a frame with the same stacks, a renderable
\* tile whose source tiles did not change and which no source flagged in
\* between has no layer drawn for any of its compositable stacks, whichever
\* slot it holds.
C17_NoRedraw ==
    FrameDone =>
        \A t \in renderableTiles : \A k \in 1..Len(stacks) :
            (CompStack(k) /\ atInit[t].quiet) => draws[t][k] = 0

\* C18: when the source tiles contributing to a renderable tile differ from
\* those recorded at the last draw of its stack, the frame draws the stack
\* for that tile exactly once.
C18_RedrawOnChange ==
    FrameDone =>
        \A t \in renderableTiles : \A k \in 1..Len(stacks) :
            (CompStack(k) /\ StackSourced(stacks[k]) /\ frameNo >= 2 /\ ~atInit[t].same)
                => draws[t][k] = 1

\* C19: a renderable tile's surface for a compositable stack is kept through
\* a frame without a draw only if the key of the source equals the recorded
\* key and the source has not flagged the tile; a flagged tile is drawn.
C19_ReuseOnlyIfValid ==
    FrameDone =>
        \A t \in renderableTiles : \A k \in 1..Len(stacks) :
            /\ (CompStack(k) /\ StackSourced(stacks[k]) /\ tileFBOs[t][k] # None
                    /\ draws[t][k] = 0)
                  => (atInit[t].same /\ ~atInit[t].flagged)
            /\ (CompStack(k) /\ SourceListed /\ atInit[t].flagged) => draws[t][k] >= 1

\* No source tile changed and no flag was raised since the first frame.
Steady == \A t \in renderableTiles : atInit[t].steady

\* C20: while tile membership is stable the pool holds at most T*S slots
\* after a frame and does not grow after the first frame.
C20_PoolBound ==
    /\ []((FrameDone /\ Steady) => pool <= Cardinality(renderableTiles) * Len(stacks))
    /\ [][(frameNo >= 2 /\ Steady) => pool' = pool]_vars

\* Stack k of this frame is the stack of a hillshade layer.
HillStack(k) == k \in 1..Len(stacks) /\ layerOrder[stacks[k][1]] = "hillshade"

\* From position i of the log the calls for stack k go on to its drape draw.
DrapeFollows(i, k) ==
    \E j \in (i + 1)..Len(log) :
        /\ log[j] = Ev("drape", 0, k, None)
        /\ \A m \in (i + 1)..(j - 1) : log[m].idx = k /\ log[m].op \in {"free", "draw"}

\* C21: in every frame, for every hillshade layer and renderable tile, the
\* slot the tile held for the hillshade stack is released, a slot of the
\* pool is claimed and drawn into, and the drape draw of the stack follows
\* the draws of its tiles, whatever initialize() found for the tile.
C21_HillshadeRedrawn ==
    FrameDone =>
        \A t \in renderableTiles : \A k \in 1..Len(stacks) :
            HillStack(k) =>
                /\ draws[t][k] >= 1
                /\ tileFBOs[t][k] \in 0..(pool - 1)
                /\ \E i \in 1..(Len(log) - 1) :
                      /\ log[i] = Ev("free", t, k, atInit[t].fbos[k])
                      /\ log[i + 1].op = "draw" /\ log[i + 1].tile = t
                      /\ log[i + 1].idx = k /\ log[i + 1].slot \in 0..(pool - 1)
                      /\ DrapeFollows(i + 1, k)

\* A later frame redraws the hillshade of a tile that nothing changed and
\* that still held its surface.
C21_Witness ==
    /\ FrameDone /\ frameNo >= 2
    /\ \E t \in renderableTiles : \E k \in 1..Len(stacks) :
          /\ HillStack(k) /\ atInit[t].quiet /\ atInit[t].fbos[k] # None
          /\ draws[t][k] >= 1

\* C22: no step shortens rttFBOs or rttTextures, the two have the same
\* length in every state, and every slot a tile holds, every slot marked in
\* use and every slot named in a call of this frame is an index of the pool.
C22_PoolNeverShrinks ==
    /\ [][pool' >= pool /\ textures' >= textures]_vars
    /\ [](textures = pool)
    /\ [](\A t \in DOMAIN tileFBOs : \A k \in 1..Len(tileFBOs[t]) :
            tileFBOs[t][k] # None => tileFBOs[t][k] \in 0..(pool - 1))
    /\ [](used \subseteq 0..(pool - 1))
    /\ [](\A i \in 1..Len(log) :
            log[i].op = "draw" => log[i].slot \in 0..(pool - 1))

\* Slots were handed out in two frames, one of them reused after an
\* invalidation, and the pool holds more than one.
C22_Witness ==
    /\ FrameDone /\ frameNo >= 2 /\ pool >= 2
    /\ \E t \in renderableTiles : \E k \in 1..Len(stacks) :
          draws[t][k] >= 1 /\ tileFBOs[t][k] < pool - 1

\* C23 as stated: a frame whose style evaluation computed a crossfade factor
\* other than 1 ends with _styleDirty set and a frame requested.
C23_Original ==
    (At("finish") /\ Top.fading) => (styleDirty /\ frame /\ rafPending = 1)

\* C23 amended: the same provided a style is still set when the frame
\* ends; and then the next frame begins unless the style is taken away.
C23_Crossfade ==
    /\ []((At("finish") /\ Top.fading /\ style) =>
            (styleDirty /\ frame /\ rafPending = 1))
    /\ (At("finish") /\ Top.fading /\ style) ~> (At("drain") \/ ~style)

C23_Witness ==
    /\ At("finish") /\ Top.fading /\ style
    /\ styleDirty /\ frame /\ crossFadingFactor # 1

\* C24 as stated: when external code called by the pipeline throws, _frame
\* is clear.
C24_Original == At("thrown") => ~frame

\* C24 amended: the exception leaves the activation without another stage
\* and without a change of the map's state; _frame then holds a handle
\* exactly when a request is pending with the host (one made by external
\* code before it threw), a later _update on a map with a style leaves a
\* frame requested, and a requested frame is executed, from the drain on,
\* unless it is cancelled.
C24_Throw ==
    /\ []((At("thrown") \/ AtTopLevel) => (rafPending <= 1 /\ (frame <=> rafPending = 1)))
    /\ [][At("thrown") => (stack' = Pop /\ UNCHANGED <<mapVars, rafPending, queue>>)]_vars
    /\ [][\A u \in BOOLEAN : (style /\ Update(u)) => (frame' /\ rafPending' = 1)]_vars
    /\ (AtTopLevel /\ frame) ~> (At("drain") \/ ~frame)

\* An exception was thrown by code that had called _update during the frame.
C24_Witness == At("thrown") /\ Len(stack) = 1 /\ frame /\ rafPending = 1 /\ sourcesDirty

\* An exception was thrown with no frame requested since the frame began.
C24_WitnessClear == At("thrown") /\ Len(stack) = 1 /\ ~frame /\ style /\ ~removed

\* C25: when the creation of a framebuffer fails while a slot is claimed, no
\* exception leaves renderLayer, the draw into the slot is skipped and a
\* diagnostic is emitted in its place, so that the frame goes on to its
\* remaining layers.
C25_FailClosed ==
    /\ ~Thrown
    /\ \A i \in 1..Len(log) :
          log[i].op = "failed" =>
              /\ i < Len(log)
              /\ log[i + 1].op = "diagnostic"
              /\ ~(log[i + 1].op = "draw" /\ log[i + 1].tile = log[i].tile
                     /\ log[i + 1].idx = log[i].idx)

\* C26: once the map is removed by code that an execution of _render has
\* called, the execution enters no further stage: it only returns, from
\* the point where that code returned.
C26_RemovedStops ==
    [][(removed /\ stack # <<>>) =>
          /\ Len(stack') <= Len(stack)
          /\ Len(stack') = Len(stack) => Top'.pc = Top.pc
          /\ Len(stack') < Len(stack) => Top.pc \in YieldPcs]_vars

\* The step in which _render evaluates the style (lines 2616-2636), and the
\* step in which it takes its decision (lines 2673-2721).  After the first,
\* _crossFadingFactor is the factor just computed: line 2633 stores it when
\* crossFading is set, and otherwise the two are equal by the test of 2631.
StyleEvaluated ==
    /\ InDrain /\ Len(stack') = Len(stack) /\ Top'.pc = "inStyleUpdate"
Decided ==
    /\ stack # <<>> /\ Top.pc \in {"decide", "inLoad"}
    /\ Len(stack') = Len(stack) /\ Top'.pc \in {"finish", "inIdle"}

\* Line 2674 sets _styleDirty exactly when crossFading is set, in a frame
\* that ends with a style, without transitions, and found the flag clear.
SetAgainIffCrossFading ==
    /\ [][(Decided /\ style /\ ~styleDirty /\ ~Top'.transitions) =>
            (styleDirty' <=> Top.crossFading)]_vars
    /\ [][(stack # <<>> /\ Len(stack') = Len(stack) /\ ~StyleEvaluated) =>
            Top'.crossFading = Top.crossFading]_vars

\* C27 as stated: crossFading is set, and so _styleDirty set again, exactly
\* when the computed factor differs from the stored one.
C27_Original ==
    /\ [][StyleEvaluated =>
            (Top'.crossFading <=> crossFadingFactor' # crossFadingFactor)]_vars
    /\ SetAgainIffCrossFading

\* C27 amended: exactly when the computed factor is not 1 or differs from
\* the stored one.
C27_StyleDirtyAgain ==
    /\ [][StyleEvaluated =>
            (Top'.crossFading <=>
                (Top'.fading \/ crossFadingFactor' # crossFadingFactor))]_vars
    /\ [][StyleEvaluated => (Top'.fading <=> crossFadingFactor' # 1)]_vars
    /\ SetAgainIffCrossFading

\* A frame without transitions ends with _styleDirty set again for a factor
\* other than 1.
C27_Witness ==
    /\ At("finish") /\ style /\ Top.crossFading /\ Top.fading /\ ~Top.transitions
    /\ styleDirty /\ crossFadingFactor # 1

\* _styleDirty and _sourcesDirty go from set to clear only in the step in
\* which _render enters its style stage or its source stage, and
\* _placementDirty only in its placement stage; an execution that is past
\* the stage of a flag does not clear it.
ClearedByStageOnly ==
    /\ (styleDirty /\ ~styleDirty') => StyleEvaluated
    /\ (sourcesDirty /\ ~sourcesDirty') =>
          (stack # <<>> /\ Len(stack') = Len(stack) /\ Top'.pc = "inSourcesUpdate")
    /\ (placementDirty /\ ~placementDirty') =>
          (At("placement") /\ Len(stack') = Len(stack) /\ Top'.pc = "draw")

\* The execution leaves its drain, and leaves its style stage.
DrainLeft ==
    InDrain /\ Len(stack') = Len(stack) /\ PcRank(Top'.pc) = 2
StyleStageLeft ==
    /\ stack # <<>> /\ PcRank(Top.pc) = 2
    /\ Len(stack') = Len(stack) /\ PcRank(Top'.pc) = 3

\* A flag is set at the end of an execution.
DirtyAtEnd == At("finish") /\ (styleDirty \/ sourcesDirty \/ placementDirty)

\* C28 as stated: flags are cleared by their stages only, a flag set at the
\* end of an execution has a frame scheduled for it, and what the drain
\* set is consumed by the stages of the same execution.
C28_Original ==
    /\ [][ClearedByStageOnly]_vars
    /\ [](DirtyAtEnd => (frame /\ rafPending = 1))
    /\ [][(DrainLeft /\ styleDirty) => ~styleDirty']_vars
    /\ [][(StyleStageLeft /\ sourcesDirty) => ~sourcesDirty']_vars

\* C28 amended: the same while a style is set, at the end of the execution
\* and at the stage.
C28_DirtyFlags ==
    /\ [][ClearedByStageOnly]_vars
    /\ []((DirtyAtEnd /\ style) => (frame /\ rafPending = 1))
    /\ [][(DrainLeft /\ styleDirty /\ style) => ~styleDirty']_vars
    /\ [][(StyleStageLeft /\ sourcesDirty /\ style) => ~sourcesDirty']_vars

\* _styleDirty is set at the end of an execution, by an _update made after
\* its style stage and not by line 2674, and a frame is requested.
C28_Witness ==
    /\ DirtyAtEnd /\ style /\ styleDirty /\ frame /\ rafPending = 1
    /\ ~Top.crossFading /\ ~Top.transitions /\ loaded

\* The calls of the log that put a layer or a stack on screen: the direct
\* draw of a layer renderLayer did not take, and the drape draw of a stack.
OnScreen == {i \in 1..Len(log) :
                \/ log[i].op = "direct"
                \/ log[i].op = "drape" /\ log[i].idx \in 1..Len(stacks)}

\* The place in the layer order of such a call: the layer drawn directly, or
\* the last layer of the stack draped.
LayerOf(i) ==
    IF log[i].op = "direct" THEN log[i].idx
    ELSE stacks[log[i].idx][Len(stacks[log[i].idx])]

\* Tile t has a surface with the layers of stack k when call i is made.
SurfaceAt(t, k, i) ==
    \/ atInit[t].fbos[k] # None
    \/ \E j \in 1..(i - 1) : log[j].op = "draw" /\ log[j].tile = t /\ log[j].idx = k

\* C29: no compositable layer is drawn directly; a stack is draped when every
\* renderable tile has a surface for it; the drape draws and the direct
\* draws of a frame are made in the order of the layers, each once; and at
\* the end of the traversal every stack has been draped.
C29_DrawOrder ==
    /\ \A i \in OnScreen :
          /\ log[i].op = "direct" => layerOrder[log[i].idx] \notin Compositable
          /\ log[i].op = "drape" =>
                \A t \in renderableTiles : SurfaceAt(t, log[i].idx, i)
    /\ \A i, j \in OnScreen : i < j => LayerOf(i) < LayerOf(j)
    /\ FrameDone => \A k \in 1..Len(stacks) : \E i \in OnScreen :
                        log[i] = Ev("drape", 0, k, None)

\* C30: a tile that the source flagged while it held a surface, and whose
\* surfaces were kept by every initialize() since, has no stack of
\* compositable layers left undrawn in a frame that renders it (for a style
\* with a compositable layer of the source).
C30_FlagNotLost ==
    (FrameDone /\ SourceListed) =>
        \A t \in renderableTiles : \A k \in 1..Len(stacks) :
            (atInit[t].due /\ CompStack(k)) => draws[t][k] >= 1

\* The calls logged from position i on agree with getFBO and freeFBO as
\* stated, starting from u marked of n slots, and end with uEnd of nEnd: a
\* draw is into the lowest slot not marked, which is then marked, or, when all
\* are marked, into a new slot whose index is n; a free unmarks its slot.
RECURSIVE SlotsAsStated(_, _, _, _, _, _)
SlotsAsStated(events, i, u, n, uEnd, nEnd) ==
    IF i > Len(events) THEN u = uEnd /\ n = nEnd
    ELSE LET e == events[i]
             free == {s \in 0..(n - 1) : s \notin u}
         IN CASE e.op = "free" ->
                   SlotsAsStated(events, i + 1, u \ {e.slot}, n, uEnd, nEnd)
              [] e.op = "draw" /\ free # {} ->
                   /\ e.slot \in free /\ \A s \in free : e.slot <= s
                   /\ SlotsAsStated(events, i + 1, u \cup {e.slot}, n, uEnd, nEnd)
              [] e.op = "draw" /\ free = {} ->
                   /\ e.slot = n
                   /\ SlotsAsStated(events, i + 1, u, n + 1, uEnd, nEnd)
              [] OTHER -> SlotsAsStated(events, i + 1, u, n, uEnd, nEnd)

\* C31: in every call of renderLayer, each getFBO returns the lowest slot
\* not marked in use and marks it, and only when every slot is marked a new
\* one, whose index is the size of the pool before.
C31_GetFBO ==
    [][(Len(log') > Len(log) /\ SubSeq(log', 1, Len(log)) = log) =>
          SlotsAsStated(log', Len(log) + 1, used, pool, used', pool')]_vars

\* A frame after the first draws into a slot that is not the newest of the
\* pool, and into a new one.
C31_Witness ==
    /\ frameNo >= 2 /\ ~Thrown
    /\ \E i, j \in 1..Len(log) :
          /\ log[i].op = "draw" /\ log[i].slot < pool - 1
          /\ log[j].op = "draw" /\ log[j].slot = pool - 1

\* C32: the key built for a terrain tile is that of every array with the
\* same set of source-tile keys, in any order and with any key repeated, and
\* of no array with another set.
C32_KeyOfSet ==
    \A other \in Pushes(MaxPushed) :
        (Range(other) = Range(pushed)) <=> (InvStr(other) = invStr)

\* C33: in every state of a frame, no slot is held by two entries (tile,
\* stack) of the renderable tiles.
C33_SlotsDistinct ==
    \A t, u \in renderableTiles :
        \A k \in 1..Len(tileFBOs[t]), m \in 1..Len(tileFBOs[u]) :
            (<<t, k>> # <<u, m>> /\ tileFBOs[t][k] # None) =>
                tileFBOs[t][k] # tileFBOs[u][m]

\* The drape draws of the log, and those of stack k.
Drapes == {i \in 1..Len(log) : log[i].op = "drape"}
DrapesOf(k) == {i \in Drapes : log[i].idx = k}

\* C34: every drape draw is that of a stack, no tile is drawn for a stack
\* after its drape draw, a stack is draped at most once, and at the end of
\* the traversal every stack has been draped once.
C34_DrapeOnce ==
    /\ \A i \in Drapes :
          /\ log[i].idx \in 1..Len(stacks)
          /\ \A j \in (i + 1)..Len(log) : ~(log[j].op = "draw" /\ log[j].idx = log[i].idx)
          /\ \A t \in renderableTiles : SurfaceAt(t, log[i].idx, i)
    /\ \A k \in 1..Len(stacks) : Cardinality(DrapesOf(k)) <= 1
    /\ FrameDone => \A k \in 1..Len(stacks) : Cardinality(DrapesOf(k)) = 1

\* C35: at the end of a frame, before anything changes, every surface a
\* renderable tile holds for a stack of the frame has the layers of that stack: it was drawn in this
\* frame, or it was drawn for the same layers and is reused.
C35_SameLayers ==
    FrameDone =>
        \A t \in renderableTiles : \A k \in 1..Len(stacks) :
            (~touched[t] /\ tileFBOs[t][k] # None) => content[t][k] = StackTypes(stacks[k])

\* C36: on a map that is not removed, an execution of _render that runs
\* without a style ends by returning from its last statement, with no frame
\* requested, and no step of it draws.
C36_NoStyleFrame ==
    /\ [][(stack # <<>> /\ ~style /\ ~removed /\ Len(stack') < Len(stack)) =>
             (Top.pc = "finish" /\ ~frame /\ rafPending = 0)]_vars
    /\ [](At("inRender") => style)

\* Between executions, on a map with a style, a set flag has a frame requested.
DirtyHasFrame ==
    (AtTopLevel /\ style /\ (styleDirty \/ sourcesDirty \/ placementDirty)) =>
        (frame /\ rafPending = 1)

\* C37 as stated: so it is in every state, whatever was called.
C37_Original == DirtyHasFrame

\* C37 amended: every operation keeps it so except _contextLost, which
\* cancels the request and leaves the flags, the setting of a style on a
\* map that had none, and an execution left by an exception of the code it
\* called; the next _update, as that of _contextRestored, has it so again.
C37_DirtyHasFrame ==
    /\ [][(DirtyHasFrame /\ ~ContextLost /\ ~Unwind /\ ~(~style /\ style')) =>
             DirtyHasFrame']_vars
    /\ [][(ContextRestored \/ \E u \in BOOLEAN : Update(u)) => DirtyHasFrame']_vars

\* An execution has ended with the placement still dirty and a frame
\* requested for it.
C37_Witness ==
    AtTopLevel /\ style /\ placementDirty /\ ~styleDirty /\ ~sourcesDirty
               /\ frame /\ rafPending = 1


\* C38: 'idle' is never emitted before 'load' on the same map: the step in
\* which an activation emits 'idle' finds _loaded set, which only the step
\* that fires 'load' sets, and every activation that has emitted 'idle' is on
\* a map whose _loaded is set.
C38_IdleAfterLoad ==
    /\ [][IdleEmitted => loaded]_vars
    /\ [][(~loaded /\ loaded') => LoadEmitted]_vars
    /\ [][\A k \in 1..Len(stack') : stack'[k].idles > 0 => loaded']_vars

C38_Witness == At("inIdle") /\ Top.idles = 1 /\ loaded /\ Len(stack) = 1


\* A step the premise of C39 rules out: a call of _update (markDirty), of
\* requestRenderFrame, of triggerRepaint or of redraw(), by the host or by the
\* map's own listeners, a style evaluation whose crossfade factor is not 1, a
\* placement update that reports dirty, or a decision that sets _styleDirty
\* again for the style's transitions alone.  A redraw() between frames with a
\* frame requested is the step of the host's frame callback, and counts as
\* that.
Disturbed ==
    \/ \E u \in BOOLEAN : Update(u)
    \/ \E u, l \in BOOLEAN : StyleData(u, l)
    \/ RequestRenderFrame
    \/ TriggerRepaint
    \/ (Redraw /\ ~FrameCallback)
    \/ \E v \in BOOLEAN : (repaint # v /\ SetRepaint(v))
    \/ (StyleStage /\ Top'.fading)
    \/ (PlacementStage /\ placementDirty')
    \/ (Decide /\ Top'.transitions)

\* The render loop has stopped: no frame requested and no flag set.
Stopped == ~frame /\ ~styleDirty /\ ~sourcesDirty /\ ~placementDirty

\* C39 as stated: once the map is left undisturbed with continuous repaint
\* off, the render loop stops after finitely many pipeline executions.
C39_Original == ([]<><<Disturbed>>_vars) \/ ([]<>repaint) \/ (<>[]Stopped)


\* A flag is set between frames and no frame is requested for it.
Stalled ==
    AtTopLevel /\ ~frame /\ (styleDirty \/ sourcesDirty \/ placementDirty)

\* C39 amended: left undisturbed with continuous repaint off, the map has
\* after finitely many pipeline executions no frame requested, and no flag
\* set unless the request for it was lost; a request is lost only by a step
\* that leaves the map without a style (setStyle(null), remove(), a call made
\* on a map without a style), by _contextLost, or by an exception that leaves
\* the execution.
C39_LoopStops ==
    /\ ([]<><<Disturbed>>_vars) \/ ([]<>repaint) \/ (<>[](Stopped \/ Stalled))
    /\ [][(~Stalled /\ Stalled') => (~style' \/ ContextLost \/ Unwind)]_vars

C39_Witness ==
    AtTopLevel /\ Stopped /\ style /\ ~repaint /\ ~removed /\ loaded
               /\ sinceIdle = "idle" /\ crossFadingFactor = 1

====
